---- MODULE Spec2Model ----
(***************************************************************************)
(* Model of the iron-butterfly earnings backtester:                        *)
(*   src/research/backtester.py  class ButterflyBacktester                 *)
(*   src/research/run_.py        backtest_by_ticker_template               *)
(*   src/data/cleaning_data.py   the derived columns of the dataset        *)
(*                                                                         *)
(* Conventions.  Dates are day numbers (integers); a difference of two     *)
(* dates is the ".days" of the Timedelta.  Quoted prices are integer       *)
(* cents; the derived '1/4' and '3/4' columns and every leg price are held *)
(* multiplied by 4, so that (bid + mid)/2 = (3 bid + ask)/4 stays an       *)
(* integer.  StrikeProp = strike / underlying is compared as an exact      *)
(* rational by cross multiplication.  Sequences are indexed the Python way *)
(* through PyInRange / PyAt (0-based, negative positions count from the    *)
(* end).  An exception is a string: "none", "DataRange" (IndexError with   *)
(* the message 'Out of data range'), "IndexError" (an IndexError with any  *)
(* other message), "ValueError", "AssertionError", "AttributeError".       *)
(***************************************************************************)
EXTENDS Integers, Sequences, FiniteSets, TLC

VARIABLES
    option_data,     \* the ticker's dataset, a sequence of rows in table order
    tdays,           \* trading_days handed to the constructor
    args,            \* constructor arguments of the event under study
    bt,              \* <<>> or <<object>>: the ButterflyBacktester instance
    exc,             \* exception raised by the last call ("none" if it returned)
    ret,             \* value returned by the last metric call
    pc,              \* position of the single-event driver
    earnings_dates,  \* runner: sequence of [date, bmo] in dict order
    funcs_to_run,    \* runner: metric names
    func_kwargs,     \* runner: keyword arguments, one record per metric
    out,             \* runner: the result table, out[row][col]
    k,               \* runner: position in earnings_dates (1-based, next to run)
    i,               \* runner: position in funcs_to_run (1-based, next to run)
    rpc,             \* runner: position in backtest_by_ticker_template
    log              \* runner: history of what was attempted, for the properties

vars == <<option_data, tdays, args, bt, exc, ret, pc,
          earnings_dates, funcs_to_run, func_kwargs, out, k, i, rpc, log>>

evars == <<option_data, tdays, args, bt, exc, ret, pc>>
rvars == <<earnings_dates, funcs_to_run, func_kwargs, out, k, i, rpc, log>>

-----------------------------------------------------------------------------
(* Bounds of the model *)

MaxDay == 4          \* observation dates are drawn from 1..MaxDay
MaxHold == 3         \* holding_period is drawn from 0..MaxHold
MaxMinDays == 2      \* min_days_expiry is drawn from 0..MaxMinDays
MaxSize == 2         \* BidSize / AskSize are drawn from 0..MaxSize
MaxEvents == 2       \* earnings_dates holds 1..MaxEvents dates
MaxOffset == 1       \* days_before / days_after are drawn from 0..MaxOffset

(* Program constants *)

WingWidth10 == 1     \* wing_width = 0.1, in tenths of moneyness
AtmDelta == 50       \* 0.5, in hundredths
OtmPutProp10 == 9    \* 0.9, in tenths
OtmCallProp10 == 11  \* 1.1, in tenths
ContractSize == 100  \* shares per option contract

-----------------------------------------------------------------------------
(* Generic helpers *)

Abs(x) == IF x < 0 THEN -x ELSE x
Max(a, b) == IF a >= b THEN a ELSE b
Min(a, b) == IF a <= b THEN a ELSE b

RECURSIVE SortedSeq(_)
SortedSeq(S) ==
    IF S = {} THEN <<>>
    ELSE LET m == CHOOSE x \in S : \A y \in S : x <= y
         IN <<m>> \o SortedSeq(S \ {m})

(* Python / numpy / pandas positional indexing *)
PyInRange(s, n) == -Len(s) <= n /\ n < Len(s)
PyAt(s, n) == IF n >= 0 THEN s[n + 1] ELSE s[Len(s) + n + 1]

(* argmin: the 0-based position of the first element with the least key *)
ArgMin(keys) ==
    (CHOOSE j \in 1..Len(keys) :
        /\ \A m \in 1..Len(keys) : keys[j] <= keys[m]
        /\ \A m \in 1..(j - 1) : keys[m] > keys[j]) - 1

ArgMax(keys) ==
    (CHOOSE j \in 1..Len(keys) :
        /\ \A m \in 1..Len(keys) : keys[j] >= keys[m]
        /\ \A m \in 1..(j - 1) : keys[m] < keys[j]) - 1

-----------------------------------------------------------------------------
(* The dataset: src/data/cleaning_data.py *)

Flags == <<"put", "call">>

DTE(r) == r.ExpirationDate - r.DataDate
Quarter4(r) == 3 * r.BidPrice + r.AskPrice          \* 4 x (bid + mid)/2
ThreeQuarter4(r) == r.BidPrice + 3 * r.AskPrice     \* 4 x (mid + ask)/2

(* 10 x |StrikeProp - t/10| as the fraction num/den, den > 0 *)
PropDistNum(r, t10) == Abs(10 * r.StrikePrice - t10 * r.UnderlyingPrice)
PropDistDen(r) == r.UnderlyingPrice

(* NearestProp taking the last of the nearest rows *)
NearestPropLast(rows, t10) ==
    (CHOOSE j \in 1..Len(rows) :
        /\ \A m \in 1..Len(rows) :
              PropDistNum(rows[j], t10) * PropDistDen(rows[m])
                 <= PropDistNum(rows[m], t10) * PropDistDen(rows[j])
        /\ \A m \in (j + 1)..Len(rows) :
              PropDistNum(rows[m], t10) * PropDistDen(rows[j])
                 > PropDistNum(rows[j], t10) * PropDistDen(rows[m])) - 1

(* position of the first row of rows nearest to moneyness t10/10 *)
NearestProp(rows, t10) ==
    (CHOOSE j \in 1..Len(rows) :
        /\ \A m \in 1..Len(rows) :
              PropDistNum(rows[j], t10) * PropDistDen(rows[m])
                 <= PropDistNum(rows[m], t10) * PropDistDen(rows[j])
        /\ \A m \in 1..(j - 1) :
              PropDistNum(rows[m], t10) * PropDistDen(rows[j])
                 > PropDistNum(rows[j], t10) * PropDistDen(rows[m])) - 1

(* tdays = pd.DatetimeIndex(option_data['DataDate'].unique()):
   the distinct dates in order of first appearance *)
RECURSIVE UniqueDates(_, _)
UniqueDates(rows, seen) ==
    IF rows = <<>> THEN <<>>
    ELSE IF Head(rows).DataDate \in seen THEN UniqueDates(Tail(rows), seen)
    ELSE <<Head(rows).DataDate>>
         \o UniqueDates(Tail(rows), seen \cup {Head(rows).DataDate})

-----------------------------------------------------------------------------
(* The datasets the model draws from.  A dataset is the table the cleaning
   script leaves for one ticker: rows with DTE >= 0 and non-negative prices
   and sizes (cleaning_data.py filters the others out), here in DataDate
   order.  Prices, strikes and the underlying are in cents. *)

Strikes3 == {9000, 10000, 11000}
Strikes1 == {10000}
Strikes2 == {10000, 11000}

(* the quotes of one row under the quote profile q *)
Row(q, d, e, flag, strike) ==
    LET und == 10000 + q.drift * (d - 1)
        intrinsic == IF flag = "call" THEN Max(0, und - strike)
                     ELSE Max(0, strike - und)
        bid == q.base + (IF q.parity THEN intrinsic ELSE 0)
    IN  [DataDate |-> d,
         ExpirationDate |-> e,
         PutCall |-> flag,
         StrikePrice |-> strike,
         UnderlyingPrice |-> und,
         BidPrice |-> bid,
         AskPrice |-> bid + q.spread,
         BidSize |-> IF d = 1 THEN q.bidSize1 ELSE q.bidSize2,
         AskSize |-> IF d = 1 THEN q.askSize1 ELSE q.askSize2,
         ImpliedVolatility |-> 30 + q.smile * (Abs(strike - 10000) \div 1000),
         Delta |-> (IF flag = "put" THEN -50 ELSE 50) - (strike - 10000) \div 50,
         Vega |-> 10 + d]

PlainQuotes ==
    [drift |-> 0, base |-> 100, spread |-> 20, parity |-> TRUE, smile |-> 2,
     bidSize1 |-> MaxSize, askSize1 |-> MaxSize,
     bidSize2 |-> MaxSize, askSize2 |-> MaxSize]

(* the table quoting every strike and flag of every expiry e on every
   observation date d <= e, ordered by date, expiry, flag, strike *)
Table(cal, exps, strikes, q) ==
    LET ds == SortedSeq(cal)
        es == SortedSeq(exps)
        ss == SortedSeq(strikes)
        ne == Len(es)
        ns == Len(ss)
        all == [n \in 1..(Len(ds) * ne * 2 * ns) |->
                   Row(q, ds[((n - 1) \div (ne * 2 * ns)) + 1],
                          es[(((n - 1) \div (2 * ns)) % ne) + 1],
                          Flags[(((n - 1) \div ns) % 2) + 1],
                          ss[((n - 1) % ns) + 1])]
    IN  SelectSeq(all, LAMBDA r : r.DataDate <= r.ExpirationDate)

(* a NaN Delta of the table (deltas are in hundredths, -100..100) *)
NanDelta == 1000

RECURSIVE WithDefect(_, _)
(* a data error at the rows of one (date, flag, strike): the rows are
   missing, or doubled (identically, or with a different BidSize), or their
   implied vol is NaN (the pricing model did not converge), held as -1, or
   their delta is NaN *)
WithDefect(rows, x) ==
    IF rows = <<>> THEN <<>>
    ELSE LET r == Head(rows)
             hit == r.DataDate = x.date /\ r.PutCall = x.flag /\ r.StrikePrice = x.strike
         IN  (CASE ~hit -> <<r>>
                [] hit /\ x.kind = "missing" -> <<>>
                [] hit /\ x.kind = "dup_same" -> <<r, r>>
                [] hit /\ x.kind = "dup_diff" ->
                       <<r, [r EXCEPT !.BidSize = r.BidSize + 1]>>
                [] hit /\ x.kind = "nan_iv" ->
                       <<[r EXCEPT !.ImpliedVolatility = -1]>>
                [] hit /\ x.kind = "nan_delta" ->
                       <<[r EXCEPT !.Delta = NanDelta]>>)
             \o WithDefect(Tail(rows), x)

(* every calendar and one or two expiries, plainly quoted *)
CalendarFamily ==
    {Table(cal, exps, Strikes3, PlainQuotes) :
        <<cal, exps>> \in
            {<<c, x>> \in (SUBSET (1..MaxDay)) \X (SUBSET (1..(MaxDay + 1))) :
                /\ c # {} /\ Cardinality(x) \in {1, 2}
                /\ \E d \in c, e \in x : d <= e}}

(* one put and one call at 100% moneyness on every day, bid 1.00 / ask 1.20,
   implied vol 0.30, underlying flat at 100, positive sizes *)
AtmOnlyFamily ==
    {Table(1..MaxDay, {MaxDay}, Strikes1,
           [PlainQuotes EXCEPT !.bidSize1 = z[1], !.askSize1 = z[2],
                               !.bidSize2 = z[3], !.askSize2 = z[4]]) :
        z \in (1..MaxSize) \X (1..MaxSize) \X (1..MaxSize) \X (1..MaxSize)}

(* a full calendar with moving underlying, quotes at or below parity, the
   bid and ask sizes none, one and the most *)
QuoteFamily ==
    {Table(1..MaxDay, {MaxDay}, Strikes3,
           [PlainQuotes EXCEPT !.drift = y[1], !.parity = y[2],
                               !.bidSize1 = z[1], !.askSize1 = z[2],
                               !.bidSize2 = z[3], !.askSize2 = z[4]]) :
        <<y, z>> \in ({-500, 0, 500} \X BOOLEAN)
                     \X ({0, 1, MaxSize} \X {0, 1, MaxSize}
                         \X {0, 1, MaxSize} \X {0, 1, MaxSize})}

(* a full calendar with a fast-moving underlying and quotes below parity *)
SteepFamily ==
    {Table(1..MaxDay, {MaxDay}, Strikes3,
           [PlainQuotes EXCEPT !.drift = y, !.parity = FALSE]) : y \in {-1500, 1500}}

(* a full calendar with one data error *)
DefectFamily ==
    {WithDefect(Table(1..MaxDay, {MaxDay}, Strikes3, PlainQuotes), x) :
        x \in [kind : {"missing", "dup_same", "dup_diff"}, date : 1..MaxDay,
               flag : {"put", "call"}, strike : Strikes3]}

(* the chain of one put and one call at 100% moneyness, with a NaN implied
   vol on one day (on this chain the quadratic fit fails before it reads
   the implied vols, see CurveCalcCont) *)
NanFamily ==
    {WithDefect(Table(1..MaxDay, {MaxDay}, Strikes1, PlainQuotes),
                [kind |-> "nan_iv", date |-> d, flag |-> f, strike |-> 10000]) :
        d \in 1..MaxDay, f \in {"put", "call"}}

(* the chain of one put and one call at 100% moneyness, the delta of the
   put NaN on one day *)
NanDeltaFamily ==
    {WithDefect(Table(1..MaxDay, {MaxDay}, Strikes1, PlainQuotes),
                [kind |-> "nan_delta", date |-> d, flag |-> "put", strike |-> 10000]) :
        d \in 1..MaxDay}

(* the chain of one put and one call at 100% moneyness, the put or the
   call not quoted on one day *)
LackingSideFamily ==
    {WithDefect(Table(1..MaxDay, {MaxDay}, Strikes1, PlainQuotes),
                [kind |-> "missing", date |-> d, flag |-> f, strike |-> 10000]) :
        d \in 1..MaxDay, f \in {"put", "call"}}

(* constructor arguments *)
AllArgs ==
    [earnings_date : 0..(MaxDay + 1), before_market_open : BOOLEAN,
     holding_period : 0..MaxHold, min_days_expiry : 0..MaxMinDays,
     wing_width10 : {WingWidth10}]

FewArgs ==
    [earnings_date : {1, 2}, before_market_open : BOOLEAN,
     holding_period : {1, MaxHold}, min_days_expiry : {1},
     wing_width10 : {WingWidth10}]

-----------------------------------------------------------------------------
(* ButterflyBacktester.__init__ and its private steps.  Every step returns a
   record whose exc field is "none" or the exception the step raises. *)

(* __fix_edate: position and date of the close right before the call *)
FixEdate(td, earnings_date, before_market_open) ==
    LET hits == {j \in 1..Len(td) : td[j] = earnings_date}
        diff == [j \in 1..Len(td) |-> td[j] - earnings_date]
        temp == SelectSeq(diff, LAMBDA d : d < 0)
        found == hits # {}
        idx0 == IF found THEN (CHOOSE j \in hits : \A m \in hits : j <= m) - 1
                ELSE ArgMax(temp)
        bmo == IF found THEN before_market_open ELSE FALSE
        idx == IF bmo THEN idx0 - 1 ELSE idx0
    IN  IF ~found /\ Len(temp) = 0
        THEN [exc |-> "DataRange", edate_idx |-> 0, edate |-> 0]
        ELSE IF ~PyInRange(td, idx)
        THEN [exc |-> "IndexError", edate_idx |-> idx, edate |-> 0]
        ELSE [exc |-> "none", edate_idx |-> idx, edate |-> PyAt(td, idx)]

(* __get_expiry: the nearest expiry quoted min_days_expiry positions later *)
GetExpiry(data, td, edate_idx, min_days_expiry) ==
    IF ~PyInRange(td, edate_idx + min_days_expiry)
    THEN [exc |-> "DataRange", expiry |-> 0]
    ELSE LET earliest_date == PyAt(td, edate_idx + min_days_expiry)
             df == SelectSeq(data, LAMBDA r : r.DataDate = earliest_date)
         IN  IF Len(df) = 0
             THEN [exc |-> "ValueError", expiry |-> 0]
             ELSE LET ser == PyAt(df, ArgMin([j \in 1..Len(df) |-> Abs(DTE(df[j]))]))
                  IN  [exc |-> "none", expiry |-> ser.ExpirationDate]

(* the holding period after the clamp of __get_exit_date *)
ClampedHolding(edate, expiry, holding_period) ==
    LET to_expiry == expiry - edate
    IN  IF holding_period > to_expiry THEN to_expiry - 1 ELSE holding_period

(* __get_exit_date *)
GetExitDate(td, edate_idx, edate, expiry, holding_period) ==
    LET hp == ClampedHolding(edate, expiry, holding_period)
    IN  IF ~PyInRange(td, edate_idx + hp)
        THEN [exc |-> "IndexError", exit_date |-> 0]
        ELSE [exc |-> "none", exit_date |-> PyAt(td, edate_idx + hp)]

(* the final price read at the last observation of the chain slice, the
   entry price on the anchor date *)
GetUnderlyingPricesLastObservation(df, data, edate, expiry) ==
    LET atEnt == SelectSeq(data, LAMBDA r : r.DataDate = edate)
    IN  IF Len(df) = 0 \/ Len(atEnt) = 0
        THEN [exc |-> "DataRange", final_price |-> 0, entry_price |-> 0]
        ELSE [exc |-> "none",
              final_price |-> df[Len(df)].UnderlyingPrice,
              entry_price |-> atEnt[1].UnderlyingPrice]

(* __get_underlying_prices: first in the chain slice, then in the dataset *)
GetUnderlyingPrices(df, data, edate, expiry) ==
    LET atExp(rows) == SelectSeq(rows, LAMBDA r : r.DataDate = expiry)
        atEnt(rows) == SelectSeq(rows, LAMBDA r : r.DataDate = edate)
        has(rows) == Len(atExp(rows)) > 0 /\ Len(atEnt(rows)) > 0
        get(rows) == [exc |-> "none",
                      final_price |-> atExp(rows)[1].UnderlyingPrice,
                      entry_price |-> atEnt(rows)[1].UnderlyingPrice]
    IN  IF has(df) THEN get(df)
        ELSE IF has(data) THEN get(data)
        ELSE [exc |-> "DataRange", final_price |-> 0, entry_price |-> 0]

ContractNames == <<"OTM Put", "ATM Put", "ATM Call", "OTM Call">>

(* flag = contract_name.split()[1].lower() *)
FlagOf(name) == IF name \in {"OTM Put", "ATM Put"} THEN "put" ELSE "call"

(* wing = contract_name[0] == 'O' *)
IsWing(name) == name \in {"OTM Put", "OTM Call"}

(* strike_prop_map, in tenths *)
StrikePropMap(name, wing_width10) ==
    CASE name = "OTM Put" -> 10 - wing_width10
      [] name = "ATM Put" -> 10
      [] name = "ATM Call" -> 10
      [] name = "OTM Call" -> 10 + wing_width10

(* intrinsic_value with the two flags exchanged *)
IntrinsicValue4Swapped(row, flag) ==
    IF flag = "call" THEN 4 * Max(0, row.StrikePrice - row.UnderlyingPrice)
    ELSE 4 * Max(0, row.UnderlyingPrice - row.StrikePrice)

(* intrinsic_value(row, flag), x 4 *)
IntrinsicValue4(row, flag) ==
    IF flag = "call" THEN 4 * Max(0, row.UnderlyingPrice - row.StrikePrice)
    ELSE 4 * Max(0, row.StrikePrice - row.UnderlyingPrice)

(* expiration_value(strike, flag), x 4 *)
ExpirationValue4(strike, flag, final_price) ==
    IF flag = "call" THEN 4 * Max(0, final_price - strike)
    ELSE 4 * Max(0, strike - final_price)

NoLeg == [Strike |-> 0]

(* LegRecord with the body leg bought back at the '1/4' price *)
LegRecordBodyQuarter(entry, exit_, name, final_price) ==
    LET flag == FlagOf(name)
        wing == IsWing(name)
        entry_intrinsic == IntrinsicValue4(entry, flag)
        exit_intrinsic == IntrinsicValue4(exit_, flag)
    IN  [Strike |-> entry.StrikePrice,
         EntryPrice |-> IF wing THEN ThreeQuarter4(entry)
                        ELSE Max(entry_intrinsic, Quarter4(entry)),
         EntrySize |-> IF wing THEN entry.AskSize ELSE entry.BidSize,
         EntryIV |-> entry.ImpliedVolatility,
         EntryVega |-> entry.Vega,
         EntryIntrinsic |-> entry_intrinsic,
         ExitPrice |-> IF wing THEN Max(exit_intrinsic, Quarter4(exit_))
                       ELSE Quarter4(exit_),
         ExitSize |-> IF wing THEN exit_.BidSize ELSE exit_.AskSize,
         ExitIV |-> exit_.ImpliedVolatility,
         ExitVega |-> exit_.Vega,
         ExitIntrinsic |-> exit_intrinsic,
         ExpirationValue |-> ExpirationValue4(entry.StrikePrice, flag, final_price)]

(* the record stored under self.contracts[contract_name] *)
LegRecord(entry, exit_, name, final_price) ==
    LET flag == FlagOf(name)
        wing == IsWing(name)
        entry_intrinsic == IntrinsicValue4(entry, flag)
        exit_intrinsic == IntrinsicValue4(exit_, flag)
    IN  [Strike |-> entry.StrikePrice,
         EntryPrice |-> IF wing THEN ThreeQuarter4(entry)
                        ELSE Max(entry_intrinsic, Quarter4(entry)),
         EntrySize |-> IF wing THEN entry.AskSize ELSE entry.BidSize,
         EntryIV |-> entry.ImpliedVolatility,
         EntryVega |-> entry.Vega,
         EntryIntrinsic |-> entry_intrinsic,
         ExitPrice |-> IF wing THEN Max(exit_intrinsic, Quarter4(exit_))
                       ELSE ThreeQuarter4(exit_),
         ExitSize |-> IF wing THEN exit_.BidSize ELSE exit_.AskSize,
         ExitIV |-> exit_.ImpliedVolatility,
         ExitVega |-> exit_.Vega,
         ExitIntrinsic |-> exit_intrinsic,
         ExpirationValue |-> ExpirationValue4(entry.StrikePrice, flag, final_price)]

(* the rows of the exit date with the strike chosen at entry *)
ExitRows(dfFlag, exit_date, strike) ==
    SelectSeq(dfFlag, LAMBDA r : r.DataDate = exit_date /\ r.StrikePrice = strike)

(* ExitCheck without the test for no exit row: exit_.iloc[0] then raises a
   plain IndexError *)
ExitCheckNoGap(exit_) ==
    IF Len(exit_) > 1
    THEN (IF \E j \in 1..Len(exit_) : exit_[j] # exit_[1]
          THEN "AssertionError" ELSE "none")
    ELSE IF Len(exit_) = 0 THEN "IndexError"
    ELSE "none"

(* the checks on the exit rows, and exit_.iloc[0]: doubled rows must be
   identical, no row is a data error *)
ExitCheck(exit_) ==
    IF Len(exit_) > 1
    THEN (IF \E j \in 1..Len(exit_) : exit_[j] # exit_[1]
          THEN "AssertionError" ELSE "none")
    ELSE IF Len(exit_) = 0 THEN "DataRange"
    ELSE "none"

(* get_single_contract_info choosing the nearest strike again on the exit
   date instead of keeping the strike entered *)
GetSingleContractInfoReselect(df, edate, exit_date, final_price, name, strike_prop10) ==
    LET flag == FlagOf(name)
        dfFlag == SelectSeq(df, LAMBDA r : r.PutCall = flag)
        df_entry == SelectSeq(dfFlag, LAMBDA r : r.DataDate = edate)
        df_exit == SelectSeq(dfFlag, LAMBDA r : r.DataDate = exit_date)
    IN  IF Len(df_entry) = 0 THEN [exc |-> "DataRange", leg |-> NoLeg]
        ELSE
        LET entry == PyAt(df_entry, NearestProp(df_entry, strike_prop10))
            exit_ == IF Len(df_exit) = 0 THEN <<>>
                     ELSE ExitRows(dfFlag, exit_date,
                              PyAt(df_exit, NearestProp(df_exit, strike_prop10)).StrikePrice)
        IN  IF ExitCheck(exit_) # "none"
            THEN [exc |-> ExitCheck(exit_), leg |-> NoLeg]
            ELSE [exc |-> "none",
                  leg |-> LegRecord(entry, exit_[1], name, final_price)]

(* get_single_contract_info *)
GetSingleContractInfo(df, edate, exit_date, final_price, name, strike_prop10) ==
    LET flag == FlagOf(name)
        dfFlag == SelectSeq(df, LAMBDA r : r.PutCall = flag)
        df_entry == SelectSeq(dfFlag, LAMBDA r : r.DataDate = edate)
    IN  IF Len(df_entry) = 0 THEN [exc |-> "DataRange", leg |-> NoLeg]
        ELSE
        LET entry == PyAt(df_entry, NearestProp(df_entry, strike_prop10))
            exit_ == ExitRows(dfFlag, exit_date, entry.StrikePrice)
        IN  IF ExitCheck(exit_) # "none"
            THEN [exc |-> ExitCheck(exit_), leg |-> NoLeg]
            ELSE [exc |-> "none",
                  leg |-> LegRecord(entry, exit_[1], name, final_price)]

(* the loop over self.contracts: the first leg that raises ends it *)
FirstFailure(legs) ==
    IF \E n \in 1..4 : legs[n].exc # "none"
    THEN [exc |-> legs[CHOOSE n \in 1..4 :
                         /\ legs[n].exc # "none"
                         /\ \A m \in 1..(n - 1) : legs[m].exc = "none"].exc,
          contracts |-> <<>>]
    ELSE [exc |-> "none",
          contracts |-> [name \in {ContractNames[n] : n \in 1..4} |->
              legs[CHOOSE n \in 1..4 : ContractNames[n] = name].leg]]

(* __get_all_contract_info: the four legs in dict order, stopping at the
   first one that raises *)
GetAllContractInfo(df, edate, exit_date, final_price, wing_width10) ==
    FirstFailure([n \in 1..4 |->
        GetSingleContractInfo(df, edate, exit_date, final_price,
            ContractNames[n], StrikePropMap(ContractNames[n], wing_width10))])

(* __init__, lines 52-74: the anchor, the expiry, the chain slice, the exit
   date and the underlying prices; exc is the first exception raised *)
Resolve(data, td, a) ==
    LET fe == FixEdate(td, a.earnings_date, a.before_market_open)
        ge == GetExpiry(data, td, fe.edate_idx, a.min_days_expiry)
        df == SelectSeq(data, LAMBDA r : r.ExpirationDate = ge.expiry)
        gx == GetExitDate(td, fe.edate_idx, fe.edate, ge.expiry, a.holding_period)
        gu == GetUnderlyingPrices(df, data, fe.edate, ge.expiry)
    IN  [exc |-> IF fe.exc # "none" THEN fe.exc
                 ELSE IF ge.exc # "none" THEN ge.exc
                 ELSE IF gx.exc # "none" THEN gx.exc
                 ELSE gu.exc,
         tdays |-> td,
         edate |-> fe.edate,
         edate_idx |-> fe.edate_idx,
         expiry |-> ge.expiry,
         df |-> df,
         exit_date |-> gx.exit_date,
         entry_price |-> gu.entry_price,
         final_price |-> gu.final_price,
         wing_width10 |-> a.wing_width10]

(* __init__, lines 76-87: the four legs are added to the resolved state *)
WithContracts(r, gc) ==
    IF gc.exc # "none" THEN [exc |-> gc.exc, obj |-> <<>>]
    ELSE [exc |-> "none",
          obj |-> <<[tdays |-> r.tdays,
                     edate |-> r.edate,
                     edate_idx |-> r.edate_idx,
                     expiry |-> r.expiry,
                     df |-> r.df,
                     exit_date |-> r.exit_date,
                     entry_price |-> r.entry_price,
                     final_price |-> r.final_price,
                     wing_width10 |-> r.wing_width10,
                     contracts |-> gc.contracts]>>]

Legs(r) ==
    IF r.exc # "none" THEN [exc |-> r.exc, obj |-> <<>>]
    ELSE WithContracts(r, GetAllContractInfo(r.df, r.edate, r.exit_date,
                                             r.final_price, r.wing_width10))

(* ButterflyBacktester.__init__: [exc, obj] *)
Construct(data, td, a) == Legs(Resolve(data, td, a))

-----------------------------------------------------------------------------
(* Metric methods.  Each returns [exc, value]. *)

(* int(x) for the rational num/den, den > 0: truncation towards zero *)
IntOf(num, den) == IF num >= 0 THEN num \div den ELSE -((-num) \div den)

MinEntrySize(contracts) ==
    LET sizes == {contracts[name].EntrySize : name \in DOMAIN contracts}
    IN  CHOOSE m \in sizes : \A x \in sizes : m <= x

(* LegPnl4 without the sign change of the sold legs *)
LegPnl4Unsigned(name, contract, actual_entry_size) ==
    LET remainder == Max(0, actual_entry_size - contract.ExitSize)
        offloaded == actual_entry_size - remainder
    IN  (contract.ExitPrice - contract.EntryPrice) * offloaded
        + (contract.ExpirationValue - contract.EntryPrice) * remainder

(* one leg's curr_pnl in pnl(), x 4 *)
LegPnl4(name, contract, actual_entry_size) ==
    LET remainder == Max(0, actual_entry_size - contract.ExitSize)
        offloaded == actual_entry_size - remainder
        main_pnl == (contract.ExitPrice - contract.EntryPrice) * offloaded
        leftover_pnl == (contract.ExpirationValue - contract.EntryPrice) * remainder
        curr_pnl == main_pnl + leftover_pnl
    IN  IF IsWing(name) THEN curr_pnl ELSE -curr_pnl

(* pnl(entry_size_ratio), entry_size_ratio = ratio[1]/ratio[2]; value x 4 *)
Pnl(obj, ratio) ==
    LET actual_entry_size == IntOf(MinEntrySize(obj.contracts) * ratio[1], ratio[2])
        leg(n) == LegPnl4(ContractNames[n], obj.contracts[ContractNames[n]],
                          actual_entry_size)
    IN  IF actual_entry_size = 0 THEN [exc |-> "none", value |-> 0]
        ELSE [exc |-> "none",
              value |-> (leg(1) + leg(2) + leg(3) + leg(4)) * ContractSize]

(* avg_exit_size_ratio without the cap of each ratio at 1 *)
AvgExitSizeRatioNoCap(obj) ==
    LET entry_size == MinEntrySize(obj.contracts)
        total == obj.contracts["OTM Put"].ExitSize + obj.contracts["ATM Put"].ExitSize
                 + obj.contracts["ATM Call"].ExitSize + obj.contracts["OTM Call"].ExitSize
    IN  IF entry_size = 0
        THEN [exc |-> "none", value |-> [nan |-> TRUE, num |-> 0, den |-> 1]]
        ELSE [exc |-> "none",
              value |-> [nan |-> FALSE, num |-> total, den |-> 4 * entry_size]]

(* avg_exit_size_ratio(): np.nan, or the exact fraction num/den of
   sum(min(1.0, Exit Size / entry_size)) / 4 *)
AvgExitSizeRatio(obj) ==
    LET entry_size == MinEntrySize(obj.contracts)
        capped(name) == Min(entry_size, obj.contracts[name].ExitSize)
        total == capped("OTM Put") + capped("ATM Put")
                 + capped("ATM Call") + capped("OTM Call")
    IN  IF entry_size = 0
        THEN [exc |-> "none", value |-> [nan |-> TRUE, num |-> 0, den |-> 1]]
        ELSE [exc |-> "none",
              value |-> [nan |-> FALSE, num |-> total, den |-> 4 * entry_size]]

-----------------------------------------------------------------------------
(* Curvature of the smile.  A curvature is the exact fraction [num, den];
   the quadratic coefficient of the least-squares fit is not computed: it is
   kept as the fit's input points, a value that is equal for equal inputs. *)

Rat(num, den) ==
    IF num = 0 THEN [num |-> 0, den |-> 1]
    ELSE IF den < 0 THEN [num |-> -num, den |-> -den]
    ELSE [num |-> num, den |-> den]

Zero == Rat(0, 1)

(* float('nan'), and a NaN implied vol of the table *)
NotANumber == [nan |-> TRUE]
IsNaN(iv) == iv < 0

(* a - b for two curvatures *)
Diff(a, b) ==
    IF a = NotANumber \/ b = NotANumber THEN NotANumber
    ELSE IF a = b THEN Zero
    ELSE IF "num" \in DOMAIN a /\ "num" \in DOMAIN b
    THEN Rat(a.num * b.den - b.num * a.den, a.den * b.den)
    ELSE [minuend |-> a, subtrahend |-> b]

(* vol_changes(): 100 x (otm_vol_change x avg_otm_vega
   - atm_vol_change x avg_atm_vega), x 8; NaN when an implied vol is NaN *)
VolChanges(obj) ==
    LET c == obj.contracts
        change2(kind) == (c[kind \o " Put"].ExitIV + c[kind \o " Call"].ExitIV)
                         - (c[kind \o " Put"].EntryIV + c[kind \o " Call"].EntryIV)
        vega4(kind) == c[kind \o " Put"].EntryVega + c[kind \o " Call"].EntryVega
                       + c[kind \o " Put"].ExitVega + c[kind \o " Call"].ExitVega
    IN  IF \E name \in DOMAIN c : IsNaN(c[name].EntryIV) \/ IsNaN(c[name].ExitIV)
        THEN [exc |-> "none", value |-> NotANumber]
        ELSE [exc |-> "none",
              value |-> 100 * (change2("OTM") * vega4("OTM")
                               - change2("ATM") * vega4("ATM"))]

(* quality_of_fill(): net_credit / self.entry_price as a fraction; the
   division of numpy floats by 0 warns, and the warning is an error *)
QualityOfFill(obj) ==
    LET c == obj.contracts
        net_credit4 == c["ATM Put"].EntryPrice + c["ATM Call"].EntryPrice
                       - c["OTM Put"].EntryPrice - c["OTM Call"].EntryPrice
    IN  IF obj.entry_price = 0
        THEN [exc |-> "RuntimeWarning", value |-> <<>>]
        ELSE [exc |-> "none", value |-> Rat(net_credit4, 4 * obj.entry_price)]

(* (df['Delta'] - target).abs().argmin(): the position of the first row
   whose Delta is nearest to target (hundredths); argmin skips NaN.  No
   slice of the datasets above has every delta NaN. *)
NearestDelta(rows, target) ==
    LET valid == {j \in 1..Len(rows) : rows[j].Delta # NanDelta}
    IN  (CHOOSE j \in valid :
            /\ \A m \in valid :
                  Abs(rows[j].Delta - target) <= Abs(rows[m].Delta - target)
            /\ \A m \in valid :
                  m < j => Abs(rows[m].Delta - target) > Abs(rows[j].Delta - target)) - 1

(* atm_put and atm_call of __curve_calc_disc *)
AtmPutRow(df) == PyAt(df, NearestDelta(df, -AtmDelta))
AtmCallRow(df) == PyAt(df, NearestDelta(df, AtmDelta))

(* otm_put and otm_call of __curve_calc_disc, df having puts and calls *)
OtmPutRow(df) ==
    LET df_puts == SelectSeq(df, LAMBDA r : r.PutCall = "put")
    IN  PyAt(df_puts, NearestProp(df_puts, OtmPutProp10))

OtmCallRow(df) ==
    LET df_calls == SelectSeq(df, LAMBDA r : r.PutCall = "call")
    IN  PyAt(df_calls, NearestProp(df_calls, OtmCallProp10))

(* __curve_calc_disc *)
CurveCalcDisc(df) ==
    IF Len(df) = 0 THEN [exc |-> "DataRange", value |-> <<>>]
    ELSE
    LET atm_put == AtmPutRow(df)
        atm_call == AtmCallRow(df)
        atm_vol2 == atm_put.ImpliedVolatility + atm_call.ImpliedVolatility
        df_puts == SelectSeq(df, LAMBDA r : r.PutCall = "put")
        df_calls == SelectSeq(df, LAMBDA r : r.PutCall = "call")
    IN  IF Len(df_puts) = 0 \/ Len(df_calls) = 0
        THEN [exc |-> "DataRange", value |-> <<>>]
        ELSE
        LET otm_put == OtmPutRow(df)
            otm_call == OtmCallRow(df)
            otm_vol2 == otm_put.ImpliedVolatility + otm_call.ImpliedVolatility
        IN  IF \E row \in {atm_put, atm_call, otm_put, otm_call} :
                  IsNaN(row.ImpliedVolatility)
            THEN [exc |-> "none", value |-> NotANumber]
            ELSE IF atm_vol2 = 0 THEN [exc |-> "ZeroDivisionError", value |-> <<>>]
            ELSE [exc |-> "none", value |-> Rat(otm_vol2, atm_vol2)]

(* the number of distinct StrikeProp values among rows *)
DistinctProps(rows) ==
    Cardinality({j \in 1..Len(rows) :
        \A m \in 1..(j - 1) :
            rows[m].StrikePrice * rows[j].UnderlyingPrice
                # rows[j].StrikePrice * rows[m].UnderlyingPrice})

(* __curve_calc_cont.  warnings.filterwarnings("error") turns every warning
   of np.polyfit into an exception.  polyfit divides the columns of the
   Vandermonde matrix by their norms: when every abscissa log(StrikeProp) is
   0 the norms of the x^2 and x columns are 0 and the division 0/0 raises
   RuntimeWarning, which no clause catches.  Otherwise polyfit warns
   RankWarning when the abscissae take fewer than three distinct values, and
   the except clause turns that into the data-range error. *)
CurveCalcCont(df) ==
    LET put_side == SelectSeq(df, LAMBDA r :
                        r.PutCall = "put" /\ r.StrikePrice <= r.UnderlyingPrice)
        call_side == SelectSeq(df, LAMBDA r :
                        r.PutCall = "call" /\ r.StrikePrice >= r.UnderlyingPrice)
        surface_df == put_side \o call_side
    IN  IF Len(put_side) = 0 \/ Len(call_side) = 0
        THEN [exc |-> "DataRange", value |-> <<>>]
        ELSE IF \A j \in 1..Len(surface_df) :
                   surface_df[j].StrikePrice = surface_df[j].UnderlyingPrice
        THEN [exc |-> "RuntimeWarning", value |-> <<>>]
        ELSE IF DistinctProps(surface_df) < 3
        THEN [exc |-> "DataRange", value |-> <<>>]
        ELSE [exc |-> "none",
              value |-> [quadratic_term_of |->
                  [j \in 1..Len(surface_df) |->
                      <<surface_df[j].StrikePrice, surface_df[j].UnderlyingPrice,
                        surface_df[j].ImpliedVolatility>>]]]

(* the method curve_changes selects by substring *)
CurveMethod(method, df) ==
    IF method = "discrete" THEN CurveCalcDisc(df) ELSE CurveCalcCont(df)

(* rows with positive bid, ask and sizes *)
Liquid(rows) ==
    SelectSeq(rows, LAMBDA r :
        r.BidPrice > 0 /\ r.AskPrice > 0 /\ r.BidSize > 0 /\ r.AskSize > 0)

(* the curvature on the day-slices of before_date, after_date and edate, in
   the order the code computes them, and the two changes *)
CurveDiffs(curves) ==
    IF \E n \in 1..3 : curves[n].exc # "none"
    THEN [exc |-> curves[CHOOSE n \in 1..3 :
                           /\ curves[n].exc # "none"
                           /\ \A m \in 1..(n - 1) : curves[m].exc = "none"].exc,
          value |-> <<>>]
    ELSE [exc |-> "none",
          value |-> [before |-> Diff(curves[3].value, curves[1].value),
                     after |-> Diff(curves[2].value, curves[3].value)]]

ThreeCurves(method, df, dates) ==
    CurveDiffs([n \in 1..3 |->
        CurveMethod(method, SelectSeq(df, LAMBDA r : r.DataDate = dates[n]))])

(* before_date = self.tdays[self.edate_idx - days_before], where the index
   is in range (a negative index counts from the end) *)
BeforeDate(obj, days_before) == PyAt(obj.tdays, obj.edate_idx - days_before)

(* curve_changes(method, days_before, days_after) *)
CurveChanges(obj, method, days_before, days_after) ==
    IF method \notin {"discrete", "continuous"}
    THEN [exc |-> "ValueError", value |-> <<>>]
    ELSE IF ~PyInRange(obj.tdays, obj.edate_idx - days_before)
            \/ ~PyInRange(obj.tdays, obj.edate_idx + days_after)
    THEN [exc |-> "IndexError", value |-> <<>>]
    ELSE ThreeCurves(method, Liquid(obj.df),
                     <<BeforeDate(obj, days_before),
                       PyAt(obj.tdays, obj.edate_idx + days_after),
                       obj.edate>>)

-----------------------------------------------------------------------------
(* The life of one event: construction, then metric calls *)

Ratios == {<<0, 1>>, <<1, 2>>, <<1, 1>>}
Methods == {"discrete", "continuous", "linear"}

RunnerIdle ==
    /\ earnings_dates = <<>>
    /\ funcs_to_run = <<>>
    /\ func_kwargs = <<>>
    /\ out = <<>>
    /\ k = 0
    /\ i = 0
    /\ rpc = "idle"
    /\ log = <<>>

EventStart ==
    /\ tdays = UniqueDates(option_data, {})
    /\ bt = <<>>
    /\ exc = "none"
    /\ ret = [call |-> "none"]
    /\ pc = "new"
    /\ RunnerIdle

(* construction, over every calendar *)
Init ==
    /\ \/ option_data \in CalendarFamily /\ args \in AllArgs
       \/ option_data \in AtmOnlyFamily \cup QuoteFamily \cup DefectFamily
                                       \cup SteepFamily
          /\ args \in FewArgs
    /\ EventStart

(* construction and metric calls, over every quote *)
InitMetrics ==
    /\ option_data \in AtmOnlyFamily \cup QuoteFamily \cup DefectFamily
                       \cup NanFamily \cup NanDeltaFamily \cup LackingSideFamily
    /\ args \in FewArgs
    /\ EventStart

(* backtester = ButterflyBacktester(option_data, earnings_date, tdays, ...) *)
New ==
    /\ pc = "new"
    /\ LET c == Construct(option_data, tdays, args)
       IN  /\ bt' = c.obj
           /\ exc' = c.exc
           /\ pc' = IF c.exc = "none" THEN "ready" ELSE "raised"
    /\ UNCHANGED <<option_data, tdays, args, ret>>
    /\ UNCHANGED rvars

(* backtester.pnl(entry_size_ratio) *)
CallPnl ==
    /\ pc = "ready"
    /\ \E ratio \in Ratios :
          LET r == Pnl(bt[1], ratio)
          IN  /\ exc' = r.exc
              /\ ret' = [call |-> "pnl", entry_size_ratio |-> ratio, value |-> r.value]
    /\ pc' = "returned"
    /\ UNCHANGED <<option_data, tdays, args, bt>>
    /\ UNCHANGED rvars

(* curve_changes that keeps the liquidity filter in self.df *)
CallCurveChangesInPlace ==
    /\ pc = "ready"
    /\ \E method \in Methods, days_before \in 0..MaxOffset, days_after \in 0..MaxOffset :
          LET r == CurveChanges(bt[1], method, days_before, days_after)
          IN  /\ exc' = r.exc
              /\ ret' = [call |-> "curve_changes", method |-> method,
                         days_before |-> days_before, days_after |-> days_after,
                         value |-> r.value]
    /\ pc' = "returned"
    /\ bt' = <<[bt[1] EXCEPT !.df = Liquid(bt[1].df)]>>
    /\ UNCHANGED <<option_data, tdays, args>>
    /\ UNCHANGED rvars

(* backtester.curve_changes(method, days_before, days_after) *)
CallCurveChanges ==
    /\ pc = "ready"
    /\ \E method \in Methods, days_before \in 0..MaxOffset, days_after \in 0..MaxOffset :
          LET r == CurveChanges(bt[1], method, days_before, days_after)
          IN  /\ exc' = r.exc
              /\ ret' = [call |-> "curve_changes", method |-> method,
                         days_before |-> days_before, days_after |-> days_after,
                         value |-> r.value]
    /\ pc' = "returned"
    /\ UNCHANGED <<option_data, tdays, args, bt>>
    /\ UNCHANGED rvars

(* backtester.avg_exit_size_ratio() *)
CallAvgExitSizeRatio ==
    /\ pc = "ready"
    /\ LET r == AvgExitSizeRatio(bt[1])
       IN  /\ exc' = r.exc
           /\ ret' = [call |-> "avg_exit_size_ratio", value |-> r.value]
    /\ pc' = "returned"
    /\ UNCHANGED <<option_data, tdays, args, bt>>
    /\ UNCHANGED rvars

(* backtester.vol_changes() *)
CallVolChanges ==
    /\ pc = "ready"
    /\ LET r == VolChanges(bt[1])
       IN  /\ exc' = r.exc
           /\ ret' = [call |-> "vol_changes", value |-> r.value]
    /\ pc' = "returned"
    /\ UNCHANGED <<option_data, tdays, args, bt>>
    /\ UNCHANGED rvars

(* backtester.quality_of_fill() *)
CallQualityOfFill ==
    /\ pc = "ready"
    /\ LET r == QualityOfFill(bt[1])
       IN  /\ exc' = r.exc
           /\ ret' = [call |-> "quality_of_fill", value |-> r.value]
    /\ pc' = "returned"
    /\ UNCHANGED <<option_data, tdays, args, bt>>
    /\ UNCHANGED rvars

(* the caller drops the result; the object is ready for the next call *)
Resume ==
    /\ pc = "returned"
    /\ pc' = "ready"
    /\ exc' = "none"
    /\ ret' = [call |-> "none"]
    /\ UNCHANGED <<option_data, tdays, args, bt>>
    /\ UNCHANGED rvars

Next == New

NextMetrics ==
    \/ New
    \/ CallPnl
    \/ CallCurveChanges
    \/ CallAvgExitSizeRatio
    \/ CallVolChanges
    \/ CallQualityOfFill
    \/ Resume

Spec == Init /\ [][Next]_vars

SpecMetrics == InitMetrics /\ [][NextMetrics]_vars

-----------------------------------------------------------------------------
(* backtest_by_ticker_template.  funcs_to_run and func_kwargs arrive as
   [type, val] (a str or a list; None, a dict or a list) and are normalised
   to sequences.  A keyword dict is a function from parameter names. *)

KnownMetrics == {"pnl", "curve_changes"}

Get(kw, key, default) == IF key \in DOMAIN kw THEN kw[key] ELSE default

(* the call of the bound method called name with the keywords kw *)
Invoke(obj, name, kw) ==
    IF name = "pnl"
    THEN (IF DOMAIN kw \subseteq {"entry_size_ratio"}
          THEN Pnl(obj, Get(kw, "entry_size_ratio", <<1, 1>>))
          ELSE [exc |-> "TypeError", value |-> <<>>])
    ELSE (IF DOMAIN kw \subseteq {"method", "days_before", "days_after"}
          THEN CurveChanges(obj, Get(kw, "method", "continuous"),
                            Get(kw, "days_before", 5), Get(kw, "days_after", 5))
          ELSE [exc |-> "TypeError", value |-> <<>>])

(* lines 99-100 *)
NormFuncs(f) == IF f.type = "str" THEN <<f.val>> ELSE f.val

(* lines 101-104 *)
NormKwargs(kws, funcs) ==
    IF kws.type = "None" THEN [j \in 1..Len(funcs) |-> <<>>]
    ELSE IF kws.type = "dict" THEN <<kws.val>>
    ELSE kws.val

(* the handlers with a bug: every IndexError skipped; every error fatal *)
OnConstructErrorAnyIndex(e) ==
    IF e \in {"DataRange", "IndexError"} THEN "continue" ELSE "raise"

OnMetricErrorAbort(e) == "raise"

(* except IndexError as error, around the constructor *)
OnConstructError(e) == IF e = "DataRange" THEN "continue" ELSE "raise"

(* except IndexError as error, around the metric call *)
OnMetricError(e) == IF e = "DataRange" THEN "continue" ELSE "raise"

(* the ticker the runner is called for *)
Ticker == "TICK"

(* a column label that reads only the metric name *)
LabelNameOnly(name, kw) == [name |-> name, pairs |-> {}]

(* the column label (name + ', '.join(['', *pairs])).strip(): the name and
   the key=value pairs of the keyword dict *)
Label(name, kw) == [name |-> name, pairs |-> {<<key, kw[key]>> : key \in DOMAIN kw}]

(* cols *)
Cols(funcs, kws) == [c \in 1..Len(funcs) |-> Label(funcs[c], kws[c])]

(* out.reset_index(); out['Ticker'] = ticker: the column labels and, per
   earnings date, the date, the metric cells and the ticker *)
Frame(dates, cols, cells) ==
    [columns |-> <<Label("Earnings Date", <<>>)>> \o cols \o <<Label("Ticker", <<>>)>>,
     rows |-> [r \in 1..Len(dates) |-> <<dates[r].date>> \o cells[r] \o <<Ticker>>]]

(* a cell of out: <<>> while unset (NaN), <<v>> once the value v is stored *)
NaN == <<>>

KwChoices ==
    {<<>>,
     [entry_size_ratio |-> <<1, 2>>],
     [method |-> "discrete", days_before |-> 1, days_after |-> 1],
     [method |-> "continuous", days_before |-> 0, days_after |-> 0],
     [method |-> "discrete", days_before |-> 0, days_after |-> MaxDay],
     [method |-> "linear"]}

(* the metric lists and keyword arguments the runner is started with *)
Configs ==
    {[funcs |-> [type |-> "str", val |-> "pnl"], kwargs |-> [type |-> "None"]],
     [funcs |-> [type |-> "list", val |-> <<"calc_pnl">>], kwargs |-> [type |-> "None"]],
     [funcs |-> [type |-> "list", val |-> <<"pnl", "curve_changes">>],
      kwargs |-> [type |-> "dict", val |-> [entry_size_ratio |-> <<1, 2>>]]]}
    \cup
    {[funcs |-> [type |-> "list", val |-> <<"curve_changes", "pnl">>],
      kwargs |-> [type |-> "list", val |-> <<kw, <<>> >>]] : kw \in KwChoices}
    \cup
    {[funcs |-> [type |-> "str", val |-> "pnl"],
      kwargs |-> [type |-> "dict", val |-> kw]] : kw \in KwChoices}
    \cup
    {[funcs |-> [type |-> "list", val |-> <<"pnl", "pnl">>],
      kwargs |-> [type |-> "list", val |-> <<[entry_size_ratio |-> <<1, 2>>], kw>>]] :
        kw \in {<<>>, [entry_size_ratio |-> <<1, 2>>]}}

(* earnings_dates: one to MaxEvents distinct dates among the first two and
   the last of the calendar, each with its flag *)
EventLists ==
    LET one == [date : {1, 2, MaxDay}, bmo : BOOLEAN]
    IN  {es \in UNION {[1..n -> one] : n \in 1..MaxEvents} :
            \A a, b \in 1..Len(es) : a # b => es[a].date # es[b].date}

(* the rows of a table as a file stores them latest first *)
Reversed(rows) == [j \in 1..Len(rows) |-> rows[Len(rows) + 1 - j]]

RunnerData ==
    {Table(1..MaxDay, {MaxDay}, Strikes3, PlainQuotes),
     Reversed(Table(1..MaxDay, {MaxDay}, Strikes3, PlainQuotes)),
     Table(1..MaxDay, {MaxDay}, Strikes1, PlainQuotes),
     Table(1..MaxDay, {MaxDay}, Strikes2, PlainQuotes),
     Table(1..MaxDay, {MaxDay + 1}, Strikes3, PlainQuotes)}
    \cup
    {WithDefect(Table(1..MaxDay, {MaxDay}, Strikes3, PlainQuotes),
                [kind |-> kd, date |-> 2, flag |-> "put", strike |-> 10000]) :
        kd \in {"missing", "dup_diff"}}

InitRunner ==
    /\ option_data \in RunnerData
    /\ earnings_dates \in EventLists
    /\ \E c \in Configs : funcs_to_run = c.funcs /\ func_kwargs = c.kwargs
    /\ args \in [earnings_date : {0}, before_market_open : {FALSE},
                 holding_period : 1..MaxHold, min_days_expiry : {1},
                 wing_width10 : {WingWidth10}]
    /\ tdays = <<>>
    /\ bt = <<>>
    /\ exc = "none"
    /\ ret = [call |-> "none"]
    /\ pc = "runner"
    /\ out = <<>>
    /\ k = 0
    /\ i = 0
    /\ rpc = "start"
    /\ log = <<>>

(* lines 99-125: the arguments, the empty result table, the calendar *)
RStart ==
    /\ rpc = "start"
    /\ LET funcs == NormFuncs(funcs_to_run)
           kws == NormKwargs(func_kwargs, funcs)
       IN  /\ funcs_to_run' = funcs
           /\ func_kwargs' = kws
           /\ IF Len(kws) # Len(funcs)
              THEN /\ rpc' = "raised"
                   /\ exc' = "ValueError"
                   /\ UNCHANGED <<out, tdays, k>>
              ELSE /\ out' = [r \in 1..Len(earnings_dates) |->
                                 [c \in 1..Len(funcs) |-> NaN]]
                   /\ tdays' = UniqueDates(option_data, {})
                   /\ k' = 1
                   /\ rpc' = "events"
                   /\ UNCHANGED exc
    /\ UNCHANGED <<option_data, args, bt, ret, pc, earnings_dates, i, log>>

(* lines 128-144: the constructor for the next earnings date *)
REvent ==
    /\ rpc = "events"
    /\ k <= Len(earnings_dates)
    /\ LET a == [args EXCEPT !.earnings_date = earnings_dates[k].date,
                             !.before_market_open = earnings_dates[k].bmo]
           c == Construct(option_data, tdays, a)
       IN  /\ args' = a
           /\ log' = Append(log, [op |-> "construct", event |-> k, metric |-> 0,
                                  exc |-> c.exc])
           /\ IF c.exc = "none"
              THEN /\ bt' = c.obj
                   /\ IF Len(funcs_to_run) = 0
                      THEN k' = k + 1 /\ UNCHANGED <<i, rpc>>
                      ELSE i' = 1 /\ rpc' = "metrics" /\ UNCHANGED k
                   /\ UNCHANGED exc
              ELSE IF OnConstructError(c.exc) = "continue"
              THEN k' = k + 1 /\ UNCHANGED <<bt, i, rpc, exc>>
              ELSE rpc' = "raised" /\ exc' = c.exc /\ UNCHANGED <<bt, i, k>>
    /\ UNCHANGED <<option_data, tdays, ret, pc, earnings_dates, funcs_to_run,
                   func_kwargs, out>>

(* lines 147-161: the next metric of the current event *)
RMetric ==
    /\ rpc = "metrics"
    /\ LET name == funcs_to_run[i]
           r == IF name \notin KnownMetrics
                THEN [exc |-> "AttributeError", value |-> <<>>]
                ELSE Invoke(bt[1], name, func_kwargs[i])
           advance == IF i = Len(funcs_to_run)
                      THEN k' = k + 1 /\ rpc' = "events" /\ UNCHANGED i
                      ELSE i' = i + 1 /\ UNCHANGED <<k, rpc>>
       IN  /\ log' = Append(log, [op |-> "metric", event |-> k, metric |-> i,
                                  exc |-> r.exc])
           /\ IF r.exc = "none"
              THEN /\ out' = [out EXCEPT ![k] =
                               [c \in 1..Len(funcs_to_run) |->
                                   IF Cols(funcs_to_run, func_kwargs)[c]
                                         = Label(name, func_kwargs[i])
                                   THEN <<r.value>> ELSE out[k][c]]]
                   /\ ret' = r.value
                   /\ advance
                   /\ UNCHANGED exc
              ELSE IF name \in KnownMetrics /\ OnMetricError(r.exc) = "continue"
              THEN advance /\ UNCHANGED <<out, ret, exc>>
              ELSE rpc' = "raised" /\ exc' = r.exc /\ UNCHANGED <<out, ret, k, i>>
    /\ UNCHANGED <<option_data, tdays, args, bt, pc, earnings_dates, funcs_to_run,
                   func_kwargs>>

(* lines 163-166: every earnings date was visited, the table is returned *)
RReturn ==
    /\ rpc = "events"
    /\ k > Len(earnings_dates)
    /\ rpc' = "returned"
    /\ ret' = Frame(earnings_dates, Cols(funcs_to_run, func_kwargs), out)
    /\ UNCHANGED <<option_data, tdays, args, bt, exc, pc, earnings_dates,
                   funcs_to_run, func_kwargs, out, k, i, log>>

NextRunner == RStart \/ REvent \/ RMetric \/ RReturn

SpecRunner == InitRunner /\ [][NextRunner]_vars

-----------------------------------------------------------------------------
(* Properties *)

Constructed == pc \in {"ready", "returned"}

(* the calendar position (0-based) of a date of the calendar *)
PositionOf(td, date) == (CHOOSE j \in 1..Len(td) : td[j] = date) - 1

(* C1: for every constructed event the resolved anchor date is at or before
   the raw earnings date, and equals it only when before_market_open is
   false and the raw date is in the calendar. *)
C1_AnchorNotAfterEarnings ==
    Constructed =>
        /\ bt[1].edate <= args.earnings_date
        /\ bt[1].edate = args.earnings_date =>
              /\ ~args.before_market_open
              /\ \E j \in 1..Len(tdays) : tdays[j] = args.earnings_date

(* C2: for every constructed event the exit date is strictly earlier than
   the chosen expiry, whatever the holding period. *)
C2_ExitBeforeExpiry ==
    Constructed => bt[1].exit_date < bt[1].expiry

(* C6: for every constructed event the expiry lies at least min_days_expiry
   calendar positions after the anchor date, hence strictly after the anchor
   when min_days_expiry >= 1. *)
C6_ExpiryRunway ==
    Constructed =>
        LET anchorIndex == PositionOf(tdays, bt[1].edate)
        IN  /\ anchorIndex + args.min_days_expiry < Len(tdays)
            /\ bt[1].expiry >= PyAt(tdays, anchorIndex + args.min_days_expiry)
            /\ args.min_days_expiry >= 1 => bt[1].expiry > bt[1].edate

(* C10: when construction reaches a leg whose strike, selected on the anchor
   date, has no row on the exit date (same flag, same expiry), construction
   raises the data-range error and no object exists; every leg of a
   constructed object carries the exit fields of a row of the exit date. *)
LegFlagRows(r, n) ==
    SelectSeq(r.df, LAMBDA row : row.PutCall = FlagOf(ContractNames[n]))

LegEntryRows(r, n) ==
    SelectSeq(LegFlagRows(r, n), LAMBDA row : row.DataDate = r.edate)

LegSelects(r, n) ==
    GetSingleContractInfo(r.df, r.edate, r.exit_date, r.final_price,
        ContractNames[n], StrikePropMap(ContractNames[n], r.wing_width10)).exc = "none"

MissingExitLeg(r, n) ==
    /\ Len(LegEntryRows(r, n)) > 0
    /\ LET rows == LegEntryRows(r, n)
           entry == rows[NearestProp(rows,
                        StrikePropMap(ContractNames[n], r.wing_width10)) + 1]
       IN  ~\E j \in 1..Len(option_data) :
               /\ option_data[j].ExpirationDate = r.expiry
               /\ option_data[j].PutCall = entry.PutCall
               /\ option_data[j].DataDate = r.exit_date
               /\ option_data[j].StrikePrice = entry.StrikePrice

ReachesMissingExit(r) ==
    /\ r.exc = "none"
    /\ \E n \in 1..4 : /\ MissingExitLeg(r, n)
                       /\ \A m \in 1..(n - 1) : LegSelects(r, m)

C10_MissingExitIsDataRange ==
    pc \in {"ready", "raised"} =>
        /\ ReachesMissingExit(Resolve(option_data, tdays, args)) =>
              pc = "raised" /\ exc = "DataRange" /\ bt = <<>>
        /\ pc = "ready" =>
              \A name \in {ContractNames[n] : n \in 1..4} :
                 \E j \in 1..Len(option_data) :
                    /\ option_data[j].ExpirationDate = bt[1].expiry
                    /\ option_data[j].PutCall = FlagOf(name)
                    /\ option_data[j].DataDate = bt[1].exit_date
                    /\ option_data[j].StrikePrice = bt[1].contracts[name].Strike
                    /\ option_data[j].ImpliedVolatility = bt[1].contracts[name].ExitIV
                    /\ option_data[j].Vega = bt[1].contracts[name].ExitVega
                    /\ bt[1].contracts[name].ExitSize
                          \in {option_data[j].BidSize, option_data[j].AskSize}

C10_Witness ==
    /\ pc = "raised"
    /\ exc = "DataRange"
    /\ ReachesMissingExit(Resolve(option_data, tdays, args))

-----------------------------------------------------------------------------
(* pnl(): the reference of the specification, written from its wording *)

WingNames == {"OTM Put", "OTM Call"}
BodyNames == {"ATM Put", "ATM Call"}

RefContracts(contracts, ratio) ==
    LET least == CHOOSE z \in {contracts[name].EntrySize : name \in DOMAIN contracts} :
                    \A name \in DOMAIN contracts : z <= contracts[name].EntrySize
    IN  (least * ratio[1]) \div ratio[2]

RefClosed(c, n) == IF n <= c.ExitSize THEN n ELSE c.ExitSize
RefHeld(c, n) == n - RefClosed(c, n)

RefTerm(c, n) ==
    (c.ExitPrice - c.EntryPrice) * RefClosed(c, n)
    + (c.ExpirationValue - c.EntryPrice) * RefHeld(c, n)

RefPnl4(contracts, ratio) ==
    LET n == RefContracts(contracts, ratio)
    IN  IF n = 0 THEN 0
        ELSE ContractSize * (RefTerm(contracts["OTM Put"], n)
                             + RefTerm(contracts["OTM Call"], n)
                             - RefTerm(contracts["ATM Put"], n)
                             - RefTerm(contracts["ATM Call"], n))

PnlReturned == pc = "returned" /\ ret.call = "pnl"

(* C7: pnl(entry_size_ratio), for the ratios 0, 1/2 and 1, returns the
   reference value: 0 when n = floor(min Entry Size x ratio) is 0, in
   particular for ratio 0; otherwise 100 x the signed sum over the legs of
   (ExitPrice - EntryPrice) x closed + (ExpirationValue - EntryPrice) x held,
   closed = min(n, Exit Size) and held = n - closed both non-negative, wings
   counted +1 and body legs -1.  (Prices are held x 4, so is the value.) *)
C7_PnlReference ==
    PnlReturned =>
        /\ exc = "none"
        /\ ret.value = RefPnl4(bt[1].contracts, ret.entry_size_ratio)
        /\ ret.entry_size_ratio[1] = 0 => ret.value = 0
        /\ \A name \in DOMAIN bt[1].contracts :
              LET n == RefContracts(bt[1].contracts, ret.entry_size_ratio)
              IN  /\ RefClosed(bt[1].contracts[name], n) >= 0
                  /\ RefHeld(bt[1].contracts[name], n) >= 0

C7_Witness ==
    /\ PnlReturned
    /\ ret.value # 0
    /\ LET n == RefContracts(bt[1].contracts, ret.entry_size_ratio)
       IN  /\ \E name \in WingNames : RefHeld(bt[1].contracts[name], n) > 0
           /\ \E name \in BodyNames : RefClosed(bt[1].contracts[name], n) > 0

-----------------------------------------------------------------------------
(* The chain of one put and one call at 100% moneyness *)

RowsOn(d, flag) ==
    {j \in 1..Len(option_data) :
        option_data[j].DataDate = d /\ option_data[j].PutCall = flag}

(* on every day one put and one call, strike = underlying = 100.00, bid 1.00,
   ask 1.20, implied vol 0.30, positive sizes *)
AtmOnlyChain ==
    /\ option_data # <<>>
    /\ \A j \in 1..Len(option_data) :
          /\ option_data[j].StrikePrice = 10000
          /\ option_data[j].UnderlyingPrice = 10000
          /\ option_data[j].BidPrice = 100
          /\ option_data[j].AskPrice = 120
          /\ option_data[j].ImpliedVolatility = 30
          /\ option_data[j].BidSize > 0
          /\ option_data[j].AskSize > 0
          /\ Cardinality(RowsOn(option_data[j].DataDate, "put")) = 1
          /\ Cardinality(RowsOn(option_data[j].DataDate, "call")) = 1

CurveReturned == pc = "returned" /\ ret.call = "curve_changes"

(* C8: on the chain of one put and one call at 100% moneyness,
   curve_changes raises the data-range error with the discrete method and
   with the continuous method. *)
C8_AtmOnlyCurveIsDataRange ==
    (AtmOnlyChain /\ CurveReturned /\ ret.method \in {"discrete", "continuous"})
        => exc = "DataRange"

(* what pnl() adds up for the two body legs, x 4: the value less the part of
   the wings *)
BodyPart4 ==
    LET n == RefContracts(bt[1].contracts, ret.entry_size_ratio)
    IN  IF n = 0 THEN 0
        ELSE ret.value - ContractSize * (RefTerm(bt[1].contracts["OTM Put"], n)
                                         + RefTerm(bt[1].contracts["OTM Call"], n))

(* C9 as claimed: on that chain each body leg has entry price = exit price
   and the body legs contribute 0 to pnl(). *)
C9_BodyLegsContributeZero ==
    (AtmOnlyChain /\ Constructed) =>
        /\ \A name \in BodyNames :
              bt[1].contracts[name].EntryPrice = bt[1].contracts[name].ExitPrice
        /\ PnlReturned => BodyPart4 = 0

(* C9 amended: on that chain each body leg is sold at 1.05 = (bid + mid)/2
   and bought back at 1.15 = (mid + ask)/2 with expiration value 0, and
   contributes 100 x (1.05 x held - 0.10 x closed) to pnl(). *)
C9_BodyLegsPayHalfSpread ==
    (AtmOnlyChain /\ Constructed) =>
        /\ \A name \in BodyNames :
              /\ bt[1].contracts[name].EntryPrice = 420
              /\ bt[1].contracts[name].ExitPrice = 460
              /\ bt[1].contracts[name].ExpirationValue = 0
        /\ PnlReturned =>
              LET n == RefContracts(bt[1].contracts, ret.entry_size_ratio)
                  part(name) == 420 * RefHeld(bt[1].contracts[name], n)
                                - 40 * RefClosed(bt[1].contracts[name], n)
              IN  BodyPart4 = ContractSize * (part("ATM Put") + part("ATM Call"))

C9_Witness ==
    /\ AtmOnlyChain
    /\ PnlReturned
    /\ BodyPart4 # 0
    /\ \E name \in BodyNames :
          RefHeld(bt[1].contracts[name],
                  RefContracts(bt[1].contracts, ret.entry_size_ratio)) > 0

-----------------------------------------------------------------------------
(* The runner.  log holds, in order, every constructor call and metric call
   the runner made, with the exception it raised ("none" if it returned). *)

Aborted == rpc = "raised"

(* C3: every out-of-range lookup of the backtester surfaces as the
   'Out of data range' error, so that the runner is never aborted by a plain
   IndexError of a lookup. *)
C3_LookupsAreDataRange ==
    /\ Aborted => exc # "IndexError"
    /\ \A j \in 1..Len(log) : log[j].exc # "IndexError"

(* what the runner attempts after the call log[j] *)
MovesToEvent(j, ev) ==
    IF j < Len(log)
    THEN /\ ev <= Len(earnings_dates)
         /\ log[j + 1].op = "construct"
         /\ log[j + 1].event = ev
    ELSE /\ k = ev
         /\ \/ rpc = "events"
            \/ rpc = "returned" /\ ev = Len(earnings_dates) + 1

MovesToMetric(j, ev, mt) ==
    IF j < Len(log)
    THEN /\ log[j + 1].op = "metric"
         /\ log[j + 1].event = ev
         /\ log[j + 1].metric = mt
    ELSE rpc = "metrics" /\ k = ev /\ i = mt

(* C4: a data-range error of the constructor skips the event: no metric is
   run for it, its row stays unset, and the runner goes on to the next
   earnings date; a data-range error of a metric call leaves that one cell
   unset and the runner goes on to the next metric of the event, or to the
   next earnings date after the last metric; the runner returns only after
   it has tried every earnings date, and a data-range error never ends it. *)
C4_DataRangeSkips ==
    /\ \A j \in 1..Len(log) :
          /\ (log[j].op = "construct" /\ log[j].exc = "DataRange") =>
                /\ MovesToEvent(j, log[j].event + 1)
                /\ \A m \in 1..Len(log) :
                      ~(log[m].op = "metric" /\ log[m].event = log[j].event)
                /\ \A c \in 1..Len(funcs_to_run) : out[log[j].event][c] = NaN
          /\ (log[j].op = "metric" /\ log[j].exc = "DataRange") =>
                /\ out[log[j].event][log[j].metric] = NaN
                /\ IF log[j].metric < Len(funcs_to_run)
                   THEN MovesToMetric(j, log[j].event, log[j].metric + 1)
                   ELSE MovesToEvent(j, log[j].event + 1)
    /\ rpc = "returned" =>
          \A e \in 1..Len(earnings_dates) :
             \E j \in 1..Len(log) : log[j].op = "construct" /\ log[j].event = e
    /\ (Aborted /\ log # <<>>) => log[Len(log)].exc \notin {"none", "DataRange"}

C4_Witness ==
    /\ rpc = "returned"
    /\ \E j \in 1..Len(log) :
          /\ log[j].op = "construct" /\ log[j].exc = "DataRange"
          /\ log[j].event < Len(earnings_dates)
    /\ \E j \in 1..Len(log) :
          /\ log[j].op = "metric" /\ log[j].exc = "DataRange"
          /\ log[j].metric < Len(funcs_to_run)
          /\ out[log[j].event][log[j].metric + 1] # NaN

(* C5: an exception that is not the data-range error ends the runner and
   reaches the caller: the call that raised it is the last one made.  A
   keyword list whose length differs from the metric list raises ValueError
   before any event is tried; an unknown metric name raises on lookup; an
   IndexError with another message and an AssertionError are not swallowed. *)
C5_OtherErrorsPropagate ==
    /\ \A j \in 1..Len(log) :
          /\ log[j].exc \notin {"none", "DataRange"} =>
                j = Len(log) /\ Aborted /\ exc = log[j].exc
          /\ (log[j].op = "metric" /\ funcs_to_run[log[j].metric] \notin KnownMetrics) =>
                log[j].exc = "AttributeError"
    /\ (rpc # "start" /\ Len(func_kwargs) # Len(funcs_to_run)) =>
          Aborted /\ exc = "ValueError" /\ log = <<>>

C5_Witness ==
    /\ Aborted
    /\ exc = "AssertionError"
    /\ log # <<>>
    /\ log[Len(log)].op = "construct"
    /\ Len(log) > 1

-----------------------------------------------------------------------------
(* the anchor __fix_edate resolves for the arguments of the event *)
Anchor == FixEdate(tdays, args.earnings_date, args.before_market_open)

Built == pc \in {"ready", "raised"}

(* C11: when the position of the anchor date plus min_days_expiry is past
   the last position of the calendar, construction raises the data-range
   error, whatever anchor was resolved. *)
C11_ExpiryOverrunIsDataRange ==
    (/\ Built
     /\ Anchor.exc = "none"
     /\ PositionOf(tdays, Anchor.edate) + args.min_days_expiry >= Len(tdays))
        => pc = "raised" /\ exc = "DataRange"

-----------------------------------------------------------------------------
AvgReturned == pc = "returned" /\ ret.call = "avg_exit_size_ratio"

(* the sum over the four legs of min(m, Exit Size) *)
RefCappedExits(contracts, m) ==
    LET part(name) == IF contracts[name].ExitSize >= m THEN m
                      ELSE contracts[name].ExitSize
    IN  part("OTM Put") + part("ATM Put") + part("ATM Call") + part("OTM Call")

(* C12: avg_exit_size_ratio() returns not-a-number exactly when the least
   Entry Size of the four legs is 0; otherwise it returns a value in [0, 1],
   the mean over the four legs of min(1, ExitSize / least Entry Size). *)
C12_AvgExitSizeRatio ==
    AvgReturned =>
        LET m == RefContracts(bt[1].contracts, <<1, 1>>)
        IN  /\ exc = "none"
            /\ ret.value.nan <=> m = 0
            /\ ~ret.value.nan =>
                  /\ ret.value.den > 0
                  /\ 0 <= ret.value.num
                  /\ ret.value.num <= ret.value.den
                  /\ ret.value.num * (4 * m)
                        = ret.value.den * RefCappedExits(bt[1].contracts, m)

(* a leg with more to sell at exit than was entered, another with less *)
C12_Witness ==
    /\ AvgReturned
    /\ ~ret.value.nan
    /\ 0 < ret.value.num
    /\ ret.value.num < ret.value.den
    /\ \E name \in DOMAIN bt[1].contracts :
          bt[1].contracts[name].ExitSize > RefContracts(bt[1].contracts, <<1, 1>>)

(* C13: for either curvature method, curve_changes(days_before = 0,
   days_after = 0) that does not raise returns {'before': 0, 'after': 0}. *)
C13_ZeroOffsetsZeroChange ==
    (/\ CurveReturned
     /\ ret.method \in {"discrete", "continuous"}
     /\ ret.days_before = 0
     /\ ret.days_after = 0
     /\ exc = "none")
        => ret.value = [before |-> Zero, after |-> Zero]

-----------------------------------------------------------------------------
(* the events the runner skipped for a data-range error of the constructor *)
Skipped(e) ==
    \E j \in 1..Len(log) :
        log[j].op = "construct" /\ log[j].event = e /\ log[j].exc = "DataRange"

(* C14: the table the runner returns has one row per earnings date passed
   in, in their order, the rows of skipped events with every metric cell
   empty, and the columns Earnings Date, one per requested metric labelled
   with the metric name and its key=value arguments, and Ticker. *)
C14_ResultTable ==
    rpc = "returned" =>
        LET nf == Len(funcs_to_run)
        IN  /\ Len(ret.rows) = Len(earnings_dates)
            /\ Len(ret.columns) = nf + 2
            /\ ret.columns[1] = [name |-> "Earnings Date", pairs |-> {}]
            /\ ret.columns[nf + 2] = [name |-> "Ticker", pairs |-> {}]
            /\ \A c \in 1..nf :
                  /\ ret.columns[c + 1].name = funcs_to_run[c]
                  /\ ret.columns[c + 1].pairs
                        = {<<key, func_kwargs[c][key]>> : key \in DOMAIN func_kwargs[c]}
            /\ \A r \in 1..Len(earnings_dates) :
                  /\ Len(ret.rows[r]) = nf + 2
                  /\ ret.rows[r][1] = earnings_dates[r].date
                  /\ ret.rows[r][nf + 2] = Ticker
                  /\ Skipped(r) => \A c \in 1..nf : ret.rows[r][c + 1] = NaN

C14_Witness ==
    /\ rpc = "returned"
    /\ Len(earnings_dates) > 1
    /\ Len(funcs_to_run) > 1
    /\ \E r \in 1..Len(earnings_dates) : Skipped(r)
    /\ \E r \in 1..Len(earnings_dates) :
          \A c \in 1..Len(funcs_to_run) : ret.rows[r][c + 1] # NaN
    /\ \E c \in 1..Len(funcs_to_run) : ret.columns[c + 1].pairs # {}

-----------------------------------------------------------------------------
(* C15: once the object is constructed, no call of pnl, vol_changes,
   quality_of_fill, avg_exit_size_ratio or curve_changes, returning or
   raising, changes the resolved state (anchor, expiry, exit date,
   underlying prices, chain slice, leg records); nor does the caller's
   taking of the result. *)
C15_MetricsKeepState == [][pc # "new" => bt' = bt]_vars

(* a call that raised, after which the object is still the one the
   constructor built *)
C15_Witness ==
    /\ pc = "returned"
    /\ ret.call = "curve_changes"
    /\ exc \notin {"none", "ValueError"}
    /\ bt = Construct(option_data, tdays, args).obj
    /\ Len(Liquid(bt[1].df)) < Len(bt[1].df)

-----------------------------------------------------------------------------
(* the calendar dates strictly earlier than the raw earnings date *)
EarlierDates == {tdays[j] : j \in {m \in 1..Len(tdays) : tdays[m] < args.earnings_date}}

InCalendar == \E j \in 1..Len(tdays) : tdays[j] = args.earnings_date

(* C16: a raw earnings date that is not in the calendar resolves to the
   latest calendar date strictly before it, whatever before_market_open
   is, and to a data-range error when there is no such date; a raw date in
   the calendar with before_market_open true resolves to the calendar date
   one position earlier. *)
C16_AnchorResolution ==
    Built =>
        /\ (~InCalendar /\ EarlierDates = {}) => pc = "raised" /\ exc = "DataRange"
        /\ (~InCalendar /\ EarlierDates # {}) =>
              /\ Anchor.exc = "none"
              /\ Anchor.edate \in EarlierDates
              /\ \A d \in EarlierDates : d <= Anchor.edate
              /\ Anchor = FixEdate(tdays, args.earnings_date, ~args.before_market_open)
        /\ (InCalendar /\ args.before_market_open) =>
              /\ Anchor.exc = "none"
              /\ PositionOf(tdays, Anchor.edate)
                     = PositionOf(tdays, args.earnings_date) - 1

-----------------------------------------------------------------------------
(* the target moneyness of a role, in tenths: 1 - w, 1, 1, 1 + w *)
Target10(name) ==
    CASE name = "OTM Put" -> 10 - args.wing_width10
      [] name = "ATM Put" -> 10
      [] name = "ATM Call" -> 10
      [] name = "OTM Call" -> 10 + args.wing_width10

(* the table positions of the rows a role may enter: the chosen expiry, the
   role's flag, the anchor date *)
Candidates(name, expiry, edate) ==
    {j \in 1..Len(option_data) :
        /\ option_data[j].ExpirationDate = expiry
        /\ option_data[j].PutCall = (IF name \in {"OTM Put", "ATM Put"}
                                     THEN "put" ELSE "call")
        /\ option_data[j].DataDate = edate}

(* row a is at least as near to the role's target moneyness as row b *)
NotFarther(a, b, name) ==
    Abs(10 * a.StrikePrice - Target10(name) * a.UnderlyingPrice) * b.UnderlyingPrice
       <= Abs(10 * b.StrikePrice - Target10(name) * b.UnderlyingPrice) * a.UnderlyingPrice

(* the first of the nearest candidate rows, in table order *)
IsEntryRow(j, name, expiry, edate) ==
    /\ j \in Candidates(name, expiry, edate)
    /\ \A m \in Candidates(name, expiry, edate) :
          /\ NotFarther(option_data[j], option_data[m], name)
          /\ m < j => ~NotFarther(option_data[m], option_data[j], name)

(* the entry fields of a leg record are those of the row *)
EntryFieldsOf(leg, row, name) ==
    /\ leg.Strike = row.StrikePrice
    /\ leg.EntryIV = row.ImpliedVolatility
    /\ leg.EntryVega = row.Vega
    /\ leg.EntrySize = (IF name \in {"OTM Put", "OTM Call"}
                        THEN row.AskSize ELSE row.BidSize)

(* C17: each role enters the first row, in table order, of the rows of the
   chosen expiry with the role's flag on the anchor date that are nearest
   to the role's target moneyness; when a role has no such row (and the
   roles before it were filled) construction raises the data-range error. *)
C17_EntryRowNearestMoneyness ==
    /\ pc = "ready" =>
          \A n \in 1..4 : \E j \in 1..Len(option_data) :
             /\ IsEntryRow(j, ContractNames[n], bt[1].expiry, bt[1].edate)
             /\ EntryFieldsOf(bt[1].contracts[ContractNames[n]],
                              option_data[j], ContractNames[n])
    /\ Built =>
          LET r == Resolve(option_data, tdays, args)
          IN  (/\ r.exc = "none"
               /\ \E n \in 1..4 :
                     /\ Candidates(ContractNames[n], r.expiry, r.edate) = {}
                     /\ \A m \in 1..(n - 1) : LegSelects(r, m))
                  => pc = "raised" /\ exc = "DataRange"

(* a body leg entered on a tie: two rows are nearest, and the first one,
   which differs from the other in what the leg records, is the one taken *)
C17_Witness ==
    /\ pc = "ready"
    /\ \E j, m \in Candidates("ATM Put", bt[1].expiry, bt[1].edate) :
          /\ j < m
          /\ IsEntryRow(j, "ATM Put", bt[1].expiry, bt[1].edate)
          /\ NotFarther(option_data[m], option_data[j], "ATM Put")
          /\ ~EntryFieldsOf(bt[1].contracts["ATM Put"], option_data[m], "ATM Put")

-----------------------------------------------------------------------------
(* the exit fields of a leg record are those of the row *)
ExitFieldsOf(leg, row, name) ==
    /\ leg.ExitIV = row.ImpliedVolatility
    /\ leg.ExitVega = row.Vega
    /\ leg.ExitSize = (IF name \in {"OTM Put", "OTM Call"}
                       THEN row.BidSize ELSE row.AskSize)

(* C18: in every constructed event each leg's entry observation (anchor
   date) and exit observation (exit date) are rows of the one chosen
   expiry with the leg's flag and one and the same strike. *)
C18_LegKeepsStrikeFlagExpiry ==
    pc = "ready" =>
        \A n \in 1..4 :
           LET name == ContractNames[n]
               leg == bt[1].contracts[name]
           IN  /\ \E j \in Candidates(name, bt[1].expiry, bt[1].edate) :
                     /\ option_data[j].StrikePrice = leg.Strike
                     /\ EntryFieldsOf(leg, option_data[j], name)
               /\ \E x \in Candidates(name, bt[1].expiry, bt[1].exit_date) :
                     /\ option_data[x].StrikePrice = leg.Strike
                     /\ ExitFieldsOf(leg, option_data[x], name)

(* the underlying has moved: on the exit date another strike of the chain
   is nearer to the role's target than the strike entered, and the leg
   still exits at the strike entered *)
C18_Witness ==
    /\ pc = "ready"
    /\ bt[1].exit_date # bt[1].edate
    /\ \E x, y \in Candidates("ATM Put", bt[1].expiry, bt[1].exit_date) :
          /\ option_data[x].StrikePrice = bt[1].contracts["ATM Put"].Strike
          /\ ExitFieldsOf(bt[1].contracts["ATM Put"], option_data[x], "ATM Put")
          /\ ~NotFarther(option_data[x], option_data[y], "ATM Put")
          /\ ~ExitFieldsOf(bt[1].contracts["ATM Put"], option_data[y], "ATM Put")

-----------------------------------------------------------------------------
(* 4 x quarter = 4 x (bid + mid)/2 and 4 x threeQuarter = 4 x (mid + ask)/2,
   with 2 x mid = bid + ask *)
RefQuarter4(row) == 2 * row.BidPrice + (row.BidPrice + row.AskPrice)
RefThreeQuarter4(row) == (row.BidPrice + row.AskPrice) + 2 * row.AskPrice

(* 4 x max(0, underlying - strike) for calls, 4 x max(0, strike - underlying)
   for puts *)
RefIntrinsic4(row, name) ==
    LET d == IF name \in {"ATM Call", "OTM Call"}
             THEN row.UnderlyingPrice - row.StrikePrice
             ELSE row.StrikePrice - row.UnderlyingPrice
    IN  IF d > 0 THEN 4 * d ELSE 0

(* the pricing of a leg from its entry and exit rows *)
RefPricing(leg, entry, exit_, name) ==
    /\ leg.EntryIntrinsic = RefIntrinsic4(entry, name)
    /\ leg.ExitIntrinsic = RefIntrinsic4(exit_, name)
    /\ IF name \in {"OTM Put", "OTM Call"}
       THEN /\ leg.EntryPrice = RefThreeQuarter4(entry)
            /\ leg.ExitPrice = (IF RefIntrinsic4(exit_, name) > RefQuarter4(exit_)
                                THEN RefIntrinsic4(exit_, name) ELSE RefQuarter4(exit_))
            /\ leg.EntrySize = entry.AskSize
            /\ leg.ExitSize = exit_.BidSize
            /\ leg.ExitPrice >= leg.ExitIntrinsic
       ELSE /\ leg.EntryPrice = (IF RefIntrinsic4(entry, name) > RefQuarter4(entry)
                                 THEN RefIntrinsic4(entry, name) ELSE RefQuarter4(entry))
            /\ leg.ExitPrice = RefThreeQuarter4(exit_)
            /\ leg.EntrySize = entry.BidSize
            /\ leg.ExitSize = exit_.AskSize
            /\ leg.EntryPrice >= leg.EntryIntrinsic

(* the table positions of the rows of the chain with the role's flag and
   the strike of row j on the exit date *)
ExitCandidates(j, name) ==
    {x \in Candidates(name, bt[1].expiry, bt[1].exit_date) :
        option_data[x].StrikePrice = option_data[j].StrikePrice}

(* the table positions of the rows a role enters *)
EntryRows(name) ==
    LET cands == Candidates(name, bt[1].expiry, bt[1].edate)
    IN  {j \in cands :
            \A m \in cands :
               /\ NotFarther(option_data[j], option_data[m], name)
               /\ m < j => ~NotFarther(option_data[m], option_data[j], name)}

(* C19: every leg of a constructed event is priced from its entry row and
   its exit row: a wing enters at the three-quarter price with the ask
   size and exits at the larger of the exit intrinsic value and the quarter
   price with the bid size; a body leg enters at the larger of the entry
   intrinsic value and the quarter price with the bid size and exits at the
   three-quarter price with the ask size.  Hence a wing's exit price is at
   least its exit intrinsic value and a body leg's entry price at least its
   entry intrinsic value. *)
C19_LegPricing ==
    pc = "ready" =>
        \A n \in 1..4 :
           \E j \in EntryRows(ContractNames[n]) :
              \E x \in ExitCandidates(j, ContractNames[n]) :
                 /\ \A y \in ExitCandidates(j, ContractNames[n]) : x <= y
                 /\ RefPricing(bt[1].contracts[ContractNames[n]],
                               option_data[j], option_data[x], ContractNames[n])

(* an event in which both floors bind: a body leg is sold at its entry
   intrinsic value and a wing is closed at its exit intrinsic value, each
   above the quarter price of its row *)
C19_Witness ==
    /\ pc = "ready"
    /\ \E name \in {"ATM Put", "ATM Call"} :
          /\ bt[1].contracts[name].EntryPrice = bt[1].contracts[name].EntryIntrinsic
          /\ \E j \in EntryRows(name) :
                RefQuarter4(option_data[j]) < bt[1].contracts[name].EntryPrice
    /\ \E name \in {"OTM Put", "OTM Call"} :
          /\ bt[1].contracts[name].ExitPrice = bt[1].contracts[name].ExitIntrinsic
          /\ \E j \in EntryRows(name) : \E x \in ExitCandidates(j, name) :
                RefQuarter4(option_data[x]) < bt[1].contracts[name].ExitPrice

-----------------------------------------------------------------------------
(* the table positions of the observations of the chain of an expiry *)
ChainRows(expiry) ==
    {j \in 1..Len(option_data) : option_data[j].ExpirationDate = expiry}

(* the underlying price at the final observation of the chain *)
IsFinalObservationPrice(price, expiry) ==
    \E j \in ChainRows(expiry) :
       /\ option_data[j].UnderlyingPrice = price
       /\ \A m \in ChainRows(expiry) : option_data[m].DataDate <= option_data[j].DataDate

(* the underlying price on a date of the dataset *)
IsPriceOn(price, date) ==
    \E j \in 1..Len(option_data) :
       /\ option_data[j].DataDate = date
       /\ option_data[j].UnderlyingPrice = price

(* the anchor, the expiry and the exit date were resolved *)
ReachesPrices ==
    /\ Anchor.exc = "none"
    /\ LET ge == GetExpiry(option_data, tdays, Anchor.edate_idx, args.min_days_expiry)
       IN  /\ ge.exc = "none"
           /\ GetExitDate(tdays, Anchor.edate_idx, Anchor.edate, ge.expiry,
                          args.holding_period).exc = "none"

(* the dataset has an observation on the date *)
Observed(date) == \E j \in 1..Len(option_data) : option_data[j].DataDate = date

(* C20, as stated: whenever the chosen expiry's chain has observations and
   the anchor date is observed, the underlying prices are resolved without
   an error, also when the expiry date itself is not an observation date:
   the final price is the underlying at the chain's final observation, the
   entry price the underlying on the anchor date. *)
C20_UnderlyingPrices ==
    (Built /\ ReachesPrices) =>
        LET r == Resolve(option_data, tdays, args)
        IN  (/\ ChainRows(r.expiry) # {}
             /\ \E j \in 1..Len(option_data) : option_data[j].DataDate = r.edate) =>
               /\ r.exc = "none"
               /\ IsFinalObservationPrice(r.final_price, r.expiry)
               /\ IsPriceOn(r.entry_price, r.edate)


(* C20, amended: the final price is the underlying observed on the expiry
   date (the chain's final observation when the chain is quoted on it) and
   the entry price the underlying on the anchor date; when the dataset has
   no observation on the expiry date, or none on the anchor date,
   construction raises the data-range error, although the chain has
   observations. *)
C20_PricesOnExpiryDate ==
    (Built /\ ReachesPrices) =>
        LET r == Resolve(option_data, tdays, args)
        IN  IF Observed(r.expiry) /\ Observed(r.edate)
            THEN /\ r.exc = "none"
                 /\ IsPriceOn(r.final_price, r.expiry)
                 /\ IsPriceOn(r.entry_price, r.edate)
                 /\ (\E j \in ChainRows(r.expiry) : option_data[j].DataDate = r.expiry)
                       => IsFinalObservationPrice(r.final_price, r.expiry)
            ELSE pc = "raised" /\ exc = "DataRange" /\ bt = <<>>

(* the chain of the chosen expiry has observations, the anchor date is
   observed, the expiry date is not: construction ended with the data-range
   error *)
C20_Witness ==
    /\ pc = "raised"
    /\ exc = "DataRange"
    /\ ReachesPrices
    /\ LET r == Resolve(option_data, tdays, args)
       IN  /\ ChainRows(r.expiry) # {}
           /\ Observed(r.edate)
           /\ ~Observed(r.expiry)

-----------------------------------------------------------------------------
(* C21: a curve_changes call on an event whose anchor is at calendar
   position edate_idx >= 0 takes its 'before' slice on a date at or before
   the anchor date, and when fewer than days_before positions precede the
   anchor it ends with the data-range error. *)
C21_BeforeSliceNotAfterAnchor ==
    (/\ CurveReturned /\ ret.method \in {"discrete", "continuous"}
     /\ bt[1].edate_idx >= 0)
        => IF bt[1].edate_idx < ret.days_before
           THEN exc = "DataRange"
           ELSE BeforeDate(bt[1], ret.days_before) <= bt[1].edate

-----------------------------------------------------------------------------
(* the liquid day-slices of a curve_changes call whose calendar lookups are
   in range: before_date, after_date, anchor date *)
CallSlices ==
    [n \in 1..3 |->
        SelectSeq(Liquid(bt[1].df), LAMBDA r : r.DataDate =
            <<BeforeDate(bt[1], ret.days_before),
              PyAt(bt[1].tdays, bt[1].edate_idx + ret.days_after),
              bt[1].edate>>[n])]

HasSide(slice, flag) == \E j \in 1..Len(slice) : slice[j].PutCall = flag

DiscreteCall ==
    /\ CurveReturned
    /\ ret.method = "discrete"
    /\ PyInRange(bt[1].tdays, bt[1].edate_idx - ret.days_before)
    /\ PyInRange(bt[1].tdays, bt[1].edate_idx + ret.days_after)

(* C22: in a discrete curve_changes call every day-slice that has a put and
   a call takes its two put terms from rows with putCall = put and its two
   call terms from rows with putCall = call; a call with a slice that is
   empty or lacks a side ends with the data-range error. *)
C22_DiscreteTermsKeepSides ==
    DiscreteCall =>
        /\ \A n \in 1..3 :
              (HasSide(CallSlices[n], "put") /\ HasSide(CallSlices[n], "call")) =>
                 /\ AtmPutRow(CallSlices[n]).PutCall = "put"
                 /\ OtmPutRow(CallSlices[n]).PutCall = "put"
                 /\ AtmCallRow(CallSlices[n]).PutCall = "call"
                 /\ OtmCallRow(CallSlices[n]).PutCall = "call"
        /\ (\E n \in 1..3 :
               ~HasSide(CallSlices[n], "put") \/ ~HasSide(CallSlices[n], "call"))
              => exc = "DataRange"

-----------------------------------------------------------------------------
(* the runner has derived the calendar from the dataset *)
CalendarDerived == rpc \in {"events", "metrics", "returned"}

(* C23: the calendar the runner derives from the dataset and passes to
   every constructor is strictly increasing (hence without duplicates),
   whatever the order of the rows of the dataset. *)
C23_CalendarStrictlyIncreasing ==
    CalendarDerived =>
        \A a, b \in 1..Len(tdays) : a < b => tdays[a] < tdays[b]

====
